---------------------------- MODULE Spec2Model ----------------------------
(***************************************************************************)
(* Todoist MCP server on Cloudflare Workers: the tool registry built by    *)
(* TodoistMCP.init (src/src/index.ts), the handlers it registers, and the  *)
(* TodoistClient they call (src/unnamed/part_000, lines 201-349).          *)
(*                                                                         *)
(* JavaScript values are records [t, n, s, f]: t is the type tag, n the    *)
(* number (or 0/1 of a boolean), s the characters of a string, f the       *)
(* <<key, value>> pairs of an object or array in insertion order.  A text  *)
(* (a raw body, a message, a ToolResult's text) is a sequence of tokens.   *)
(***************************************************************************)
EXTENDS Integers, Sequences, FiniteSets, TLC

VARIABLES
    MINIMAL_TOOL_SET,   \* the compiled-in switch (index.ts:24), fixed at Init
    props,              \* this.props: the session's authorization context
    tools,              \* the names passed to server.tool, in call order
    initialized,        \* init() has run
    inv,                \* slot -> the tool invocation running in it
    probe,              \* the last direct evaluation of shouldRegisterTool
    direct,             \* the last direct call of a TodoistClient operation
    sawError,           \* a caller has been sent a result with isError
    earlier             \* what was seen of the session before this one

vars ==
    <<MINIMAL_TOOL_SET, props, tools, initialized, inv, probe, direct,
      sawError, earlier>>

---------------------------------------------------------------------------
(* Bounds of the model *)

\* tool calls that the transport may have accepted and not yet answered
MaxInFlight == 2
\* optional parameters a caller supplies in one call
MaxSupplied == 2
\* entries of a params record handed straight to TodoistClient.get
MaxParams == 2
\* characters of a task's content
MaxContentLen == 3

Slots == 1 .. MaxInFlight

---------------------------------------------------------------------------
(* JavaScript values *)

Undefined == [t |-> "undefined", n |-> 0, s |-> <<>>, f |-> <<>>]
Null == [t |-> "null", n |-> 0, s |-> <<>>, f |-> <<>>]
Str(chars) == [t |-> "string", n |-> 0, s |-> chars, f |-> <<>>]
Num(k) == [t |-> "number", n |-> k, s |-> <<>>, f |-> <<>>]
Bool(b) == [t |-> "boolean", n |-> IF b THEN 1 ELSE 0, s |-> <<>>, f |-> <<>>]
Obj(pairs) == [t |-> "object", n |-> 0, s |-> <<>>, f |-> pairs]
Arr(elems) ==
    [t |-> "array", n |-> 0, s |-> <<>>,
     f |-> [i \in 1 .. Len(elems) |-> <<ToString(i - 1), elems[i]>>]]

\* ToBoolean: what `if (x)`, `!x` and `a && b` test
Truthy(v) ==
    CASE v.t = "undefined" -> FALSE
      [] v.t = "null" -> FALSE
      [] v.t = "string" -> Len(v.s) > 0
      [] v.t = "number" -> v.n # 0
      [] v.t = "boolean" -> v.n = 1
      [] OTHER -> TRUE

Keys(o) == {o.f[i][1] : i \in 1 .. Len(o.f)}

\* o[k]: undefined when o has no own key k
Get(o, k) ==
    IF \E i \in 1 .. Len(o.f) : o.f[i][1] = k
    THEN LET i == CHOOSE j \in 1 .. Len(o.f) : o.f[j][1] = k IN o.f[i][2]
    ELSE Undefined

\* o[k] = v: replaces in place, or appends a new key
Put(o, k, v) ==
    IF \E i \in 1 .. Len(o.f) : o.f[i][1] = k
    THEN [o EXCEPT !.f = [i \in 1 .. Len(o.f) |->
                            IF o.f[i][1] = k THEN <<k, v>> ELSE o.f[i]]]
    ELSE [o EXCEPT !.f = Append(o.f, <<k, v>>)]

\* the keys a reader of the object can tell from absent ones
DefinedKeys(o) == {k \in Keys(o) : Get(o, k).t # "undefined"}

RECURSIVE Join(_, _)
Join(seqs, sep) ==
    IF seqs = <<>> THEN <<>>
    ELSE IF Len(seqs) = 1 THEN seqs[1]
    ELSE seqs[1] \o sep \o Join(Tail(seqs), sep)

\* the pairs JSON.stringify writes: a key whose value is undefined is skipped
RECURSIVE DefinedPairs(_)
DefinedPairs(pairs) ==
    IF pairs = <<>> THEN <<>>
    ELSE IF Head(pairs)[2].t # "undefined"
         THEN <<Head(pairs)>> \o DefinedPairs(Tail(pairs))
         ELSE DefinedPairs(Tail(pairs))

\* String(v) and `${v}`
RECURSIVE ToJsString(_)
ToJsString(v) ==
    CASE v.t = "undefined" -> <<"undefined">>
      [] v.t = "null" -> <<"null">>
      [] v.t = "string" -> v.s
      [] v.t = "number" -> <<ToString(v.n)>>
      [] v.t = "boolean" -> IF v.n = 1 THEN <<"true">> ELSE <<"false">>
      [] v.t = "array" ->
            Join([i \in 1 .. Len(v.f) |->
                    IF v.f[i][2].t \in {"undefined", "null"} THEN <<>>
                    ELSE ToJsString(v.f[i][2])], <<",">>)
      [] OTHER -> <<"[object Object]">>

\* JSON.stringify leaving the quote inside a string as it is
RECURSIVE Mut_Escape_noquote(_)
Mut_Escape_noquote(chars) ==
    IF chars = <<>> THEN <<>>
    ELSE (CASE Head(chars) = "\\" -> <<"\\", "\\">>
            [] Head(chars) = "\n" -> <<"\\", "n">>
            [] OTHER -> <<Head(chars)>>) \o Mut_Escape_noquote(Tail(chars))

\* the characters of a JSON string literal's inside
RECURSIVE Escape(_)
Escape(chars) ==
    IF chars = <<>> THEN <<>>
    ELSE (CASE Head(chars) = "\"" -> <<"\\", "\"">>
            [] Head(chars) = "\\" -> <<"\\", "\\">>
            [] Head(chars) = "\n" -> <<"\\", "n">>
            [] OTHER -> <<Head(chars)>>) \o Escape(Tail(chars))

Indent(level) == [i \in 1 .. level |-> "  "]

\* JSON.stringify(v) for level < 0, JSON.stringify(v, null, 2) from level 0;
\* v is not undefined (see JSONstringify)
RECURSIVE JSONtext(_, _)
JSONtext(v, level) ==
    LET pretty == level >= 0
        inner == IF pretty THEN level + 1 ELSE level
        open(b) == IF pretty THEN <<b, "\n">> \o Indent(inner) ELSE <<b>>
        sep == IF pretty THEN <<",", "\n">> \o Indent(inner) ELSE <<",">>
        close(b) == IF pretty THEN <<"\n">> \o Indent(level) \o <<b>> ELSE <<b>>
        colon == IF pretty THEN <<":", " ">> ELSE <<":">>
        elem(x) == IF x.t = "undefined" THEN <<"null">> ELSE JSONtext(x, inner)
    IN  CASE v.t = "null" -> <<"null">>
          [] v.t = "string" -> <<"\"">> \o Escape(v.s) \o <<"\"">>
          [] v.t = "number" -> <<ToString(v.n)>>
          [] v.t = "boolean" -> IF v.n = 1 THEN <<"true">> ELSE <<"false">>
          [] v.t = "array" ->
                IF v.f = <<>> THEN <<"[]">>
                ELSE open("[")
                     \o Join([i \in 1 .. Len(v.f) |-> elem(v.f[i][2])], sep)
                     \o close("]")
          [] OTHER ->
                LET kept == DefinedPairs(v.f)
                IN  IF kept = <<>> THEN <<"{}">>
                    ELSE open("{")
                         \o Join([i \in 1 .. Len(kept) |->
                                    <<"\"", kept[i][1], "\"">> \o colon
                                    \o JSONtext(kept[i][2], inner)], sep)
                         \o close("}")

\* JSON.stringify(v) inside a template literal: undefined prints "undefined"
JSONstringify(v, level) ==
    IF v.t = "undefined" THEN <<"undefined">> ELSE JSONtext(v, level)

---------------------------------------------------------------------------
(* The tool catalogue: one descriptor per server.tool call in init().      *)
(*   guarded  the call is wrapped in `if (this.shouldRegisterTool(name))`  *)
(*   client   the TodoistClient operation the handler calls                *)
(*   path     the endpoint; a "$k" token is `${k}` of the template literal *)
(*   params   the schema, in the order the handler copies the fields       *)
(*   action   the words of the catch block's "Error <action>: " prefix     *)
(*   okText   the success text: "json" is JSON.stringify(result, null, 2)  *)
(* A parameter's rule is how the handler copies it into the record it      *)
(* passes to the Client:                                                   *)
(*   "path"     only interpolated into the endpoint                        *)
(*   "always"   written in the object literal, whatever its value          *)
(*   "truthy"   if (x) rec.x = x                                           *)
(*   "defined"  if (x !== undefined) rec.x = x                             *)
(***************************************************************************)

InPath(k, ty) == [k |-> k, ty |-> ty, opt |-> FALSE, rule |-> "path"]
Always(k, ty) == [k |-> k, ty |-> ty, opt |-> FALSE, rule |-> "always"]
AlwaysOpt(k, ty) == [k |-> k, ty |-> ty, opt |-> TRUE, rule |-> "always"]
IfTruthy(k, ty) == [k |-> k, ty |-> ty, opt |-> TRUE, rule |-> "truthy"]
IfDefined(k, ty) == [k |-> k, ty |-> ty, opt |-> TRUE, rule |-> "defined"]

Tool(name, guarded, client, path, params, action, okText) ==
    [name |-> name, guarded |-> guarded, client |-> client, path |-> path,
     params |-> params, action |-> action, okText |-> okText]

\* me answered by asking the upstream for the user
Mut_T_me_client ==
    Tool("me", TRUE, "get", <<"/user">>, <<>>, "fetching user", "json")

T_me ==
    Tool("me", TRUE, "none", <<>>, <<>>, "", "identity")

T_get_tasks_by_filter ==
    Tool("get_tasks_by_filter", FALSE, "get", <<"/tasks">>,
         <<Always("filter", "string")>>,
         "fetching tasks", "projection")

T_create_project ==
    Tool("create_project", FALSE, "post", <<"/projects">>,
         <<Always("name", "string"), AlwaysOpt("description", "string"),
           AlwaysOpt("parent_id", "string"), AlwaysOpt("color", "color"),
           AlwaysOpt("is_favorite", "boolean"),
           AlwaysOpt("view_style", "view_style")>>,
         "creating project", "json")

T_get_projects ==
    Tool("get_projects", FALSE, "get", <<"/projects">>,
         <<IfTruthy("cursor", "string"), IfTruthy("limit", "limit")>>,
         "fetching projects", "json")

T_get_project ==
    Tool("get_project", FALSE, "get", <<"/projects/", "$project_id">>,
         <<InPath("project_id", "string")>>,
         "fetching project", "json")

T_update_project ==
    Tool("update_project", FALSE, "post", <<"/projects/", "$project_id">>,
         <<InPath("project_id", "string"), IfDefined("name", "string"),
           IfDefined("description", "string"), IfDefined("color", "color"),
           IfDefined("is_favorite", "boolean"),
           IfDefined("view_style", "view_style")>>,
         "updating project", "json")

T_delete_project ==
    Tool("delete_project", TRUE, "delete", <<"/projects/", "$project_id">>,
         <<InPath("project_id", "string")>>,
         "deleting project", "Project deleted successfully")

T_archive_project ==
    Tool("archive_project", TRUE, "post",
         <<"/projects/", "$project_id", "/archive">>,
         <<InPath("project_id", "string")>>,
         "archiving project", "Project archived successfully")

T_unarchive_project ==
    Tool("unarchive_project", TRUE, "post",
         <<"/projects/", "$project_id", "/unarchive">>,
         <<InPath("project_id", "string")>>,
         "unarchiving project", "Project unarchived successfully")

T_get_project_collaborators ==
    Tool("get_project_collaborators", TRUE, "get",
         <<"/projects/", "$project_id", "/collaborators">>,
         <<InPath("project_id", "string")>>,
         "fetching collaborators", "json")

T_create_section ==
    Tool("create_section", TRUE, "post", <<"/sections">>,
         <<Always("name", "string"), Always("project_id", "string"),
           AlwaysOpt("order", "number")>>,
         "creating section", "json")

T_get_sections ==
    Tool("get_sections", FALSE, "get", <<"/sections">>,
         <<IfTruthy("project_id", "string"), IfTruthy("cursor", "string"),
           IfTruthy("limit", "limit")>>,
         "fetching sections", "json")

\* get_section registered under the name of the tool above it
Mut_T_get_section_name ==
    Tool("get_sections", TRUE, "get", <<"/sections/", "$section_id">>,
         <<InPath("section_id", "string")>>,
         "fetching section", "json")

T_get_section ==
    Tool("get_section", TRUE, "get", <<"/sections/", "$section_id">>,
         <<InPath("section_id", "string")>>,
         "fetching section", "json")

T_update_section ==
    Tool("update_section", TRUE, "post", <<"/sections/", "$section_id">>,
         <<InPath("section_id", "string"), Always("name", "string")>>,
         "updating section", "json")

T_delete_section ==
    Tool("delete_section", TRUE, "delete", <<"/sections/", "$section_id">>,
         <<InPath("section_id", "string")>>,
         "deleting section", "Section deleted successfully")

T_create_task ==
    Tool("create_task", FALSE, "post", <<"/tasks">>,
         <<Always("content", "string"), IfTruthy("description", "string"),
           IfTruthy("project_id", "string"), IfTruthy("section_id", "string"),
           IfTruthy("parent_id", "string"), IfTruthy("labels", "labels"),
           IfTruthy("priority", "priority"), IfTruthy("due_string", "string"),
           IfTruthy("due_date", "string"), IfTruthy("due_datetime", "string"),
           IfTruthy("deadline_date", "string"),
           IfTruthy("assignee_id", "string")>>,
         "creating task", "json")

T_get_tasks ==
    Tool("get_tasks", FALSE, "get", <<"/tasks">>,
         <<IfTruthy("project_id", "string"), IfTruthy("section_id", "string"),
           IfTruthy("parent_id", "string"), IfTruthy("label", "string"),
           IfTruthy("ids", "string"), IfTruthy("cursor", "string"),
           IfTruthy("limit", "limit")>>,
         "fetching tasks", "json")

T_get_task ==
    Tool("get_task", TRUE, "get", <<"/tasks/", "$task_id">>,
         <<InPath("task_id", "string")>>,
         "fetching task", "json")

T_update_task ==
    Tool("update_task", FALSE, "post", <<"/tasks/", "$task_id">>,
         <<InPath("task_id", "string"), IfDefined("content", "string"),
           IfDefined("description", "string"), IfDefined("labels", "labels"),
           IfDefined("priority", "priority"),
           IfDefined("due_string", "string"), IfDefined("due_date", "string"),
           IfDefined("due_datetime", "string"),
           IfDefined("deadline_date", "string"),
           IfDefined("assignee_id", "string")>>,
         "updating task", "json")

T_delete_task ==
    Tool("delete_task", FALSE, "delete", <<"/tasks/", "$task_id">>,
         <<InPath("task_id", "string")>>,
         "deleting task", "Task deleted successfully")

T_close_task ==
    Tool("close_task", FALSE, "post", <<"/tasks/", "$task_id", "/close">>,
         <<InPath("task_id", "string")>>,
         "completing task", "Task completed successfully")

T_reopen_task ==
    Tool("reopen_task", FALSE, "post", <<"/tasks/", "$task_id", "/reopen">>,
         <<InPath("task_id", "string")>>,
         "reopening task", "Task reopened successfully")

\* task_id is moveTask's first argument; the destination fields are copied
\* `if (x) destination.x = x` once the precondition has passed
T_move_task ==
    Tool("move_task", FALSE, "moveTask", <<>>,
         <<InPath("task_id", "string"), IfTruthy("project_id", "string"),
           IfTruthy("section_id", "string"), IfTruthy("parent_id", "string")>>,
         "moving task", "moved")

T_quick_add_task ==
    Tool("quick_add_task", TRUE, "post", <<"/tasks/quick">>,
         <<Always("text", "string"), IfTruthy("note", "string"),
           IfTruthy("reminder", "string"),
           IfDefined("auto_reminder", "boolean")>>,
         "creating quick task", "json")

T_get_completed_tasks_by_completion_date ==
    Tool("get_completed_tasks_by_completion_date", TRUE, "get",
         <<"/tasks/completed/by_completion_date">>,
         <<Always("since", "string"), Always("until", "string"),
           IfTruthy("project_id", "string"), IfTruthy("section_id", "string"),
           IfTruthy("parent_id", "string"), IfTruthy("filter_query", "string"),
           IfTruthy("filter_lang", "string"),
           IfTruthy("workspace_id", "number"), IfTruthy("limit", "limit"),
           IfTruthy("cursor", "string")>>,
         "fetching completed tasks", "json")

T_get_completed_tasks_by_due_date ==
    Tool("get_completed_tasks_by_due_date", TRUE, "get",
         <<"/tasks/completed/by_due_date">>,
         <<Always("since", "string"), Always("until", "string"),
           IfTruthy("project_id", "string"), IfTruthy("section_id", "string"),
           IfTruthy("parent_id", "string"), IfTruthy("filter_query", "string"),
           IfTruthy("filter_lang", "string"),
           IfTruthy("workspace_id", "number"), IfTruthy("limit", "limit"),
           IfTruthy("cursor", "string")>>,
         "fetching completed tasks by due date", "json")

T_create_label ==
    Tool("create_label", TRUE, "post", <<"/labels">>,
         <<Always("name", "string"), IfTruthy("color", "color"),
           IfDefined("order", "number"), IfDefined("is_favorite", "boolean")>>,
         "creating label", "json")

T_get_labels ==
    Tool("get_labels", TRUE, "get", <<"/labels">>,
         <<IfTruthy("cursor", "string"), IfTruthy("limit", "limit")>>,
         "fetching labels", "json")

T_get_label ==
    Tool("get_label", TRUE, "get", <<"/labels/", "$label_id">>,
         <<InPath("label_id", "number")>>,
         "fetching label", "json")

T_update_label ==
    Tool("update_label", TRUE, "post", <<"/labels/", "$label_id">>,
         <<InPath("label_id", "number"), IfDefined("name", "string"),
           IfDefined("color", "color"), IfDefined("order", "number"),
           IfDefined("is_favorite", "boolean")>>,
         "updating label", "json")

T_delete_label ==
    Tool("delete_label", TRUE, "delete", <<"/labels/", "$label_id">>,
         <<InPath("label_id", "number")>>,
         "deleting label", "Label deleted successfully")

T_get_shared_labels ==
    Tool("get_shared_labels", TRUE, "get", <<"/labels/shared">>,
         <<IfDefined("omit_personal", "boolean")>>,
         "fetching shared labels", "json")

T_remove_shared_label ==
    Tool("remove_shared_label", TRUE, "post", <<"/labels/shared/remove">>,
         <<Always("name", "string")>>,
         "removing shared label", "Shared label removed successfully")

T_rename_shared_label ==
    Tool("rename_shared_label", TRUE, "post", <<"/labels/shared/rename">>,
         <<Always("name", "string"), Always("new_name", "string")>>,
         "renaming shared label", "Shared label renamed successfully")

T_create_comment ==
    Tool("create_comment", TRUE, "post", <<"/comments">>,
         <<Always("content", "string"), IfTruthy("task_id", "string"),
           IfTruthy("project_id", "string"),
           IfTruthy("attachment", "attachment")>>,
         "creating comment", "json")

T_get_comments ==
    Tool("get_comments", TRUE, "get", <<"/comments">>,
         <<IfTruthy("task_id", "string"), IfTruthy("project_id", "string"),
           IfTruthy("cursor", "string"), IfTruthy("limit", "limit")>>,
         "fetching comments", "json")

T_get_comment ==
    Tool("get_comment", TRUE, "get", <<"/comments/", "$comment_id">>,
         <<InPath("comment_id", "string")>>,
         "fetching comment", "json")

T_update_comment ==
    Tool("update_comment", TRUE, "post", <<"/comments/", "$comment_id">>,
         <<InPath("comment_id", "string"), Always("content", "string")>>,
         "updating comment", "json")

T_delete_comment ==
    Tool("delete_comment", TRUE, "delete", <<"/comments/", "$comment_id">>,
         <<InPath("comment_id", "string")>>,
         "deleting comment", "Comment deleted successfully")

\* the server.tool calls of init(), in source order
Catalogue ==
    <<T_me, T_get_tasks_by_filter, T_create_project, T_get_projects,
      T_get_project, T_update_project, T_delete_project, T_archive_project,
      T_unarchive_project, T_get_project_collaborators, T_create_section,
      T_get_sections, T_get_section, T_update_section, T_delete_section,
      T_create_task, T_get_tasks, T_get_task, T_update_task, T_delete_task,
      T_close_task, T_reopen_task, T_move_task, T_quick_add_task,
      T_get_completed_tasks_by_completion_date,
      T_get_completed_tasks_by_due_date, T_create_label, T_get_labels,
      T_get_label, T_update_label, T_delete_label, T_get_shared_labels,
      T_remove_shared_label, T_rename_shared_label, T_create_comment,
      T_get_comments, T_get_comment, T_update_comment, T_delete_comment>>

CatalogueNames == {Catalogue[i].name : i \in 1 .. Len(Catalogue)}

Descriptor(name) ==
    Catalogue[CHOOSE i \in 1 .. Len(Catalogue) : Catalogue[i].name = name]

---------------------------------------------------------------------------
(* Tool filter *)

ESSENTIAL_TOOLS ==
    {"create_task", "get_tasks", "update_task", "close_task",
     "get_projects", "get_project", "move_task", "get_tasks_by_filter",
     "create_project", "update_project", "get_sections", "delete_task",
     "reopen_task", "get_labels", "create_section", "update_section",
     "get_completed_tasks_by_completion_date",
     "get_completed_tasks_by_due_date"}

\* the filter with the essential names never consulted
Mut_shouldRegisterTool_always(toolName) == TRUE

\* the filter with `&&` where the source has `||`
Mut_shouldRegisterTool_and(toolName) ==
    ~MINIMAL_TOOL_SET /\ toolName \in ESSENTIAL_TOOLS

\* a filter that is lifted for one account
Mut_shouldRegisterTool_account(toolName) ==
    \/ ~MINIMAL_TOOL_SET
    \/ toolName \in ESSENTIAL_TOOLS
    \/ props.email = "bob@example.com"

shouldRegisterTool(toolName) ==
    ~MINIMAL_TOOL_SET \/ toolName \in ESSENTIAL_TOOLS

\* the names init() passes to server.tool, in order: an unguarded call is
\* always made, a guarded one when shouldRegisterTool lets it through
RECURSIVE Registrations(_)
Registrations(descriptors) ==
    IF descriptors = <<>> THEN <<>>
    ELSE LET d == Head(descriptors)
         IN  IF ~d.guarded \/ shouldRegisterTool(d.name)
             THEN <<d.name>> \o Registrations(Tail(descriptors))
             ELSE Registrations(Tail(descriptors))

Registered == {tools[i] : i \in 1 .. Len(tools)}

---------------------------------------------------------------------------
(* What a caller can send: the values each schema type admits *)

ValuesOf(ty) ==
    CASE ty = "string" -> {Str(<<>>), Str(<<"a">>)}
      [] ty = "number" -> {Num(0), Num(5)}
      [] ty = "limit" -> {Num(10)}
      [] ty = "priority" -> {Num(4)}
      [] ty = "boolean" -> {Bool(FALSE), Bool(TRUE)}
      [] ty = "color" -> {Str(<<"red">>)}
      [] ty = "view_style" -> {Str(<<"board">>)}
      [] ty = "labels" -> {Arr(<<>>), Arr(<<Str(<<"a">>)>>)}
      [] ty = "attachment" -> {Obj(<< <<"file_url", Str(<<"a">>)>> >>)}

\* the argument records that pass the schema, as <<key, value>> pairs: every
\* required parameter, and at most `budget` of the optional ones
RECURSIVE ArgPairs(_, _)
ArgPairs(params, budget) ==
    IF params = <<>> THEN {<<>>}
    ELSE LET p == Head(params)
             with(b) == {<< <<p.k, v>> >> \o r :
                            v \in ValuesOf(p.ty), r \in ArgPairs(Tail(params), b)}
         IN  IF ~p.opt THEN with(budget)
             ELSE ArgPairs(Tail(params), budget)
                  \cup (IF budget > 0 THEN with(budget - 1) ELSE {})

\* a page request names a cursor and a limit beside its filter
Budget(name) == IF name = "get_tasks" THEN MaxSupplied + 1 ELSE MaxSupplied

ArgsOf == [name \in CatalogueNames |->
             {Obj(pairs) : pairs \in ArgPairs(Descriptor(name).params,
                                              Budget(name))}]

---------------------------------------------------------------------------
(* TodoistClient: the requests it sends *)

API_BASE_URL == "https://api.todoist.com/rest/v2"
SYNC_API_URL == "https://api.todoist.com/sync/v9/sync"

NoRequest ==
    [method |-> "none", url |-> <<>>, query |-> <<>>, authorization |-> <<>>,
     contentType |-> "", body |-> <<>>]

\* fetch(url, {method, headers: this.getHeaders(includeContentType), body})
Fetch(method, url, query, apiToken, includeContentType, body) ==
    [method |-> method, url |-> url, query |-> query,
     authorization |-> <<"Bearer ", apiToken>>,
     contentType |-> IF includeContentType THEN "application/json" ELSE "",
     body |-> body]

\* URLSearchParams serialises a value as application/x-www-form-urlencoded
RECURSIVE FormEncode(_)
FormEncode(chars) ==
    IF chars = <<>> THEN <<>>
    ELSE (CASE Head(chars) = " " -> <<"+">>
            [] Head(chars) = "&" -> <<"%26">>
            [] Head(chars) = "=" -> <<"%3D">>
            [] Head(chars) = "," -> <<"%2C">>
            [] OTHER -> <<Head(chars)>>) \o FormEncode(Tail(chars))

\* client.get testing `value !== undefined` instead of `value`
RECURSIVE Mut_QueryEntries_defined(_)
Mut_QueryEntries_defined(pairs) ==
    IF pairs = <<>> THEN <<>>
    ELSE IF Head(pairs)[2].t # "undefined"
         THEN << <<Head(pairs)[1], ToJsString(Head(pairs)[2])>> >>
              \o Mut_QueryEntries_defined(Tail(pairs))
         ELSE Mut_QueryEntries_defined(Tail(pairs))

\* the entries client.get appends: those whose value is truthy
RECURSIVE QueryEntries(_)
QueryEntries(pairs) ==
    IF pairs = <<>> THEN <<>>
    ELSE IF Truthy(Head(pairs)[2])
         THEN << <<Head(pairs)[1], ToJsString(Head(pairs)[2])>> >>
              \o QueryEntries(Tail(pairs))
         ELSE QueryEntries(Tail(pairs))

QueryString(entries) ==
    Join([i \in 1 .. Len(entries) |->
            <<entries[i][1], "=">> \o FormEncode(entries[i][2])], <<"&">>)

ClientGet(apiToken, endpoint, params) ==
    LET entries == QueryEntries(params.f)
        url == <<API_BASE_URL>> \o endpoint
               \o (IF entries # <<>> THEN <<"?">> \o QueryString(entries)
                   ELSE <<>>)
    IN  Fetch("GET", url, entries, apiToken, FALSE, <<>>)

ClientPost(apiToken, endpoint, data) ==
    Fetch("POST", <<API_BASE_URL>> \o endpoint, <<>>, apiToken, TRUE,
          JSONstringify(data, -1))

ClientDelete(apiToken, endpoint) ==
    Fetch("DELETE", <<API_BASE_URL>> \o endpoint, <<>>, apiToken, FALSE, <<>>)

\* the destinations tested in an else-if chain: only the first one is sent
Mut_MoveArgs_first(taskId, destination) ==
    LET a0 == Obj(<< <<"id", taskId>> >>)
    IN  IF Truthy(Get(destination, "project_id"))
        THEN Put(a0, "project_id", Get(destination, "project_id"))
        ELSE IF Truthy(Get(destination, "section_id"))
        THEN Put(a0, "section_id", Get(destination, "section_id"))
        ELSE IF Truthy(Get(destination, "parent_id"))
        THEN Put(a0, "parent_id", Get(destination, "parent_id"))
        ELSE a0

\* the args of the item_move command: the task id and the truthy destinations
MoveArgs(taskId, destination) ==
    LET a0 == Obj(<< <<"id", taskId>> >>)
        a1 == IF Truthy(Get(destination, "project_id"))
              THEN Put(a0, "project_id", Get(destination, "project_id")) ELSE a0
        a2 == IF Truthy(Get(destination, "section_id"))
              THEN Put(a1, "section_id", Get(destination, "section_id")) ELSE a1
    IN  IF Truthy(Get(destination, "parent_id"))
        THEN Put(a2, "parent_id", Get(destination, "parent_id")) ELSE a2

MoveCommands(uuid, taskId, destination) ==
    Arr(<<Obj(<< <<"type", Str(<<"item_move">>)>>, <<"uuid", Str(<<uuid>>)>>,
                 <<"args", MoveArgs(taskId, destination)>> >>)>>)

ClientMoveTask(apiToken, uuid, taskId, destination) ==
    Fetch("POST", <<SYNC_API_URL>>, <<>>, apiToken, TRUE,
          JSONstringify(Obj(<< <<"commands",
                                 MoveCommands(uuid, taskId, destination)>> >>), -1))

---------------------------------------------------------------------------
(* The upstream's answers *)

\* crypto.randomUUID() draws from these: one for each call that can be in
\* flight
UUIDs == {"uuid-" \o ToString(k) : k \in Slots}

NoResponse == [kind |-> "none", status |-> 0, body |-> <<>>]
NetworkFailure == [kind |-> "network", status |-> 0, body |-> <<>>]
Http(status, body) == [kind |-> "http", status |-> status, body |-> body]

\* Response.ok
Ok(resp) == resp.status >= 200 /\ resp.status <= 299

TaskA ==
    Obj(<< <<"id", Str(<<"7">>)>>, <<"content", Str(<<"a">>)>>,
           <<"description", Str(<<>>)>>,
           <<"due", Obj(<< <<"date", Str(<<"d">>)>> >>)>> >>)
TaskB ==
    Obj(<< <<"id", Str(<<"8">>)>>, <<"content", Str(<<"b">>)>>,
           <<"description", Str(<<"x">>)>>, <<"due", Null>> >>)

RestPayloads == {Null, TaskB, Arr(<<TaskA, TaskB>>)}

SyncStatus(pairs) == Obj(<< <<"sync_status", Obj(pairs)>> >>)
MoveRefused ==
    Obj(<< <<"error_code", Num(15)>>, <<"error", Str(<<"Invalid temporary id">>)>> >>)

\* what the command endpoint may say about the command `uuid`
SyncPayloads(uuid) ==
    { SyncStatus(<< <<uuid, Str(<<"ok">>)>> >>),
      SyncStatus(<< <<uuid, MoveRefused>> >>),
      SyncStatus(<< <<uuid, Str(<<"f">>)>> >>),
      SyncStatus(<<>>),
      Obj(<< <<"full_sync", Bool(FALSE)>> >>),
      Null }

\* a status map that also speaks of another command in flight
SharedPayloads(uuid) ==
    UNION {{ SyncStatus(<< <<uuid, Str(<<"ok">>)>>, <<other, MoveRefused>> >>),
             SyncStatus(<< <<other, Str(<<"ok">>)>>, <<uuid, MoveRefused>> >>) }
           : other \in UUIDs \ {uuid}}

JsonUniverse ==
    RestPayloads
    \cup UNION {SyncPayloads(u) \cup SharedPayloads(u) : u \in UUIDs}

NotJson == <<"Task not found">>

RestBodies == {JSONtext(v, -1) : v \in RestPayloads} \cup {NotJson}
SyncBodies(uuid) == {JSONtext(v, -1) : v \in SyncPayloads(uuid)} \cup {NotJson}

\* what fetch may settle with: no response at all, or a status and a raw
\* body; a 204 has no body
Responses(call) ==
    {NetworkFailure, Http(204, <<>>)}
    \cup {Http(200, b) : b \in IF call.uuid = "" THEN RestBodies
                               ELSE SyncBodies(call.uuid)}
    \cup {Http(404, b) : b \in {NotJson, JSONtext(TaskB, -1)}}
    \cup {Http(500, <<>>)}

---------------------------------------------------------------------------
(* TodoistClient: what it makes of the answer.  An operation either        *)
(* returns a value or throws; `isErrorObject` is `error instanceof Error`. *)

Returned(v) ==
    [thrown |-> FALSE, isErrorObject |-> FALSE, message |-> <<>>, value |-> v]
Threw(message) ==
    [thrown |-> TRUE, isErrorObject |-> TRUE, message |-> message,
     value |-> Undefined]

\* fetch rejects with a TypeError when no response arrives
FetchRejected == Threw(<<"fetch failed">>)

\* the JSON text of every payload the upstream can send
JsonTexts == [v \in JsonUniverse |-> JSONtext(v, -1)]
\* and the payload each of those texts parses to
ParseTable ==
    [b \in {JsonTexts[v] : v \in JsonUniverse} |->
        CHOOSE v \in JsonUniverse : JsonTexts[v] = b]

NoParse == [ok |-> FALSE, chars |-> <<>>]
\* JSON.parse on the inside of a string literal: an escape stands for its
\* character, a bare quote or control character is a syntax error
RECURSIVE Unescape(_)
Unescape(chars) ==
    IF chars = <<>> THEN [ok |-> TRUE, chars |-> <<>>]
    ELSE IF Head(chars) = "\\"
    THEN IF Len(chars) < 2 THEN NoParse
         ELSE LET rest == Unescape(Tail(Tail(chars)))
                  c == CASE chars[2] = "\"" -> <<"\"">>
                         [] chars[2] = "\\" -> <<"\\">>
                         [] chars[2] = "n" -> <<"\n">>
                         [] OTHER -> <<>>
              IN  IF c = <<>> \/ ~rest.ok THEN NoParse
                  ELSE [ok |-> TRUE, chars |-> c \o rest.chars]
    ELSE IF Head(chars) \in {"\"", "\n"} THEN NoParse
    ELSE LET rest == Unescape(Tail(chars))
         IN  IF ~rest.ok THEN NoParse
             ELSE [ok |-> TRUE, chars |-> <<Head(chars)>> \o rest.chars]

\* JSON.parse on an object with one string member, in either layout
\* JSON.stringify writes
ParseStringObject(text) ==
    LET n == Len(text)
        compact == /\ n >= 8
                   /\ <<text[1], text[2], text[4], text[5], text[6]>>
                          = <<"{", "\"", "\"", ":", "\"">>
                   /\ <<text[n - 1], text[n]>> = <<"\"", "}">>
        pretty == /\ n >= 12
                  /\ <<text[1], text[2], text[3], text[4], text[6], text[7],
                       text[8], text[9]>>
                         = <<"{", "\n", "  ", "\"", "\"", ":", " ", "\"">>
                  /\ <<text[n - 2], text[n - 1], text[n]>> = <<"\"", "\n", "}">>
        key == IF compact THEN text[3] ELSE text[5]
        inside == IF compact THEN SubSeq(text, 7, n - 2)
                  ELSE SubSeq(text, 10, n - 3)
    IN  IF ~compact /\ ~pretty THEN [ok |-> FALSE, value |-> Undefined]
        ELSE LET s == Unescape(inside)
             IN  IF ~s.ok THEN [ok |-> FALSE, value |-> Undefined]
                 ELSE [ok |-> TRUE,
                       value |-> Obj(<< <<key, Str(s.chars)>> >>)]

\* response.json(): the value the body parses to, or a SyntaxError
ResponseJson(resp) ==
    IF resp.body \in DOMAIN ParseTable THEN Returned(ParseTable[resp.body])
    ELSE IF ParseStringObject(resp.body).ok
    THEN Returned(ParseStringObject(resp.body).value)
    ELSE IF resp.body = <<>> THEN Threw(<<"Unexpected end of JSON input">>)
    ELSE Threw(<<"Unexpected token in JSON">>)

\* handleResponse with the raw body left out of the message
Mut_handleResponse_nobody(resp) ==
    IF ~Ok(resp)
    THEN Threw(<<"Todoist API error (", ToString(resp.status), ")">>)
    ELSE IF resp.status = 204 THEN Returned(Null)
    ELSE ResponseJson(resp)

\* handleResponse without the `response.ok` test
Mut_handleResponse_nocheck(resp) ==
    IF resp.status = 204 THEN Returned(Null) ELSE ResponseJson(resp)

handleResponse(resp) ==
    IF ~Ok(resp)
    THEN Threw(<<"Todoist API error (", ToString(resp.status), "): ">>
               \o resp.body)
    ELSE IF resp.status = 204 THEN Returned(Null)
    ELSE ResponseJson(resp)

\* v[k] of a value that is not null or undefined
Prop(v, k) == IF v.t \in {"object", "array"} THEN Get(v, k) ELSE Undefined

\* moveTask failing when any entry of the status map is not "ok"
Mut_moveTaskResult_anyentry(resp, uuid) ==
    IF ~Ok(resp)
    THEN Threw(<<"Todoist Sync API error (", ToString(resp.status), "): ">>
               \o resp.body)
    ELSE LET parsed == ResponseJson(resp)
             result == parsed.value
             map == Prop(result, "sync_status")
         IN  IF parsed.thrown THEN parsed
             ELSE IF result.t \in {"null", "undefined"}
             THEN Threw(<<"Cannot read properties of null (reading 'sync_status')">>)
             ELSE IF Truthy(map)
                     /\ (map.f = <<>>
                           \/ \E n \in 1 .. Len(map.f) : map.f[n][2] # Str(<<"ok">>))
             THEN Threw(<<"Move task failed">>)
             ELSE Returned(result)

\* moveTask with the reported status left out of the message
Mut_moveTaskResult_nostatus(resp, uuid) ==
    IF ~Ok(resp)
    THEN Threw(<<"Todoist Sync API error (", ToString(resp.status), "): ">>
               \o resp.body)
    ELSE LET parsed == ResponseJson(resp)
             result == parsed.value
             status == Prop(Prop(result, "sync_status"), uuid)
         IN  IF parsed.thrown THEN parsed
             ELSE IF result.t \in {"null", "undefined"}
             THEN Threw(<<"Cannot read properties of null (reading 'sync_status')">>)
             ELSE IF Truthy(Prop(result, "sync_status"))
                     /\ status # Str(<<"ok">>)
             THEN Threw(<<"Move task failed">>)
             ELSE Returned(result)

\* moveTask after its fetch: lines 335-347
moveTaskResult(resp, uuid) ==
    IF ~Ok(resp)
    THEN Threw(<<"Todoist Sync API error (", ToString(resp.status), "): ">>
               \o resp.body)
    ELSE LET parsed == ResponseJson(resp)
             result == parsed.value
             status == Prop(Prop(result, "sync_status"), uuid)
         IN  IF parsed.thrown THEN parsed
             ELSE IF result.t \in {"null", "undefined"}
             THEN Threw(<<"Cannot read properties of null (reading 'sync_status')">>)
             ELSE IF Truthy(Prop(result, "sync_status"))
                     /\ status # Str(<<"ok">>)
             THEN Threw(<<"Move task failed: ">> \o JSONstringify(status, -1))
             ELSE Returned(result)

\* the awaited Client operation, once fetch has settled with `resp`
ClientOutcome(d, call, resp) ==
    IF resp.kind = "network" THEN FetchRejected
    ELSE IF resp.kind = "raised"
    THEN [thrown |-> TRUE, isErrorObject |-> FALSE, message |-> <<>>,
          value |-> Str(resp.body)]
    ELSE IF d.client = "moveTask" THEN moveTaskResult(resp, call.uuid)
    ELSE handleResponse(resp)

---------------------------------------------------------------------------
(* The handlers *)

NoResult == [text |-> <<>>, isError |-> "absent"]

Idle ==
    [pc |-> "idle", tool |-> "", args |-> Undefined, built |-> Undefined,
     uuid |-> "", req |-> NoRequest, calls |-> 0, resp |-> NoResponse,
     result |-> NoResult]

\* the endpoint template literal, `${k}` replaced by String(args.k)
EndpointOf(d, args) ==
    Join([i \in 1 .. Len(d.path) |->
            IF \E j \in 1 .. Len(d.params) : d.path[i] = "$" \o d.params[j].k
            THEN LET j == CHOOSE j \in 1 .. Len(d.params) :
                              d.path[i] = "$" \o d.params[j].k
                 IN  ToJsString(Get(args, d.params[j].k))
            ELSE <<d.path[i]>>], <<>>)

\* every conditional copy written as `if (x) rec.x = x`
Mut_Copies_truthy(p, v) ==
    CASE p.rule = "always" -> TRUE
      [] p.rule = "truthy" -> Truthy(v)
      [] p.rule = "defined" -> Truthy(v)
      [] OTHER -> FALSE

\* whether the handler writes parameter p into the record it builds
Copies(p, v) ==
    CASE p.rule = "always" -> TRUE
      [] p.rule = "truthy" -> Truthy(v)
      [] p.rule = "defined" -> v.t # "undefined"
      [] OTHER -> FALSE

\* the record the handler passes to the Client (data, params or destination)
RECURSIVE BuildRecord(_, _)
BuildRecord(params, args) ==
    IF params = <<>> THEN Obj(<<>>)
    ELSE LET p == Head(params)
             rest == BuildRecord(Tail(params), args)
         IN  IF Copies(p, Get(args, p.k))
             THEN Obj(<< <<p.k, Get(args, p.k)>> >> \o rest.f)
             ELSE rest

\* the check written against null instead of falsiness
Mut_NoDestination_null(args) ==
    /\ Get(args, "project_id").t = "null"
    /\ Get(args, "section_id").t = "null"
    /\ Get(args, "parent_id").t = "null"

\* move_task's check before any Client call (index.ts:711)
NoDestination(args) ==
    /\ ~Truthy(Get(args, "project_id"))
    /\ ~Truthy(Get(args, "section_id"))
    /\ ~Truthy(Get(args, "parent_id"))

NoDestinationText ==
    <<"Error: At least one destination must be provided (project_id, section_id, or parent_id)">>

\* me returning the whole of this.props
Mut_IdentityText_props ==
    JSONstringify(Obj(<< <<"email", Str(<<props.email>>)>>,
                         <<"full_name", Str(<<props.full_name>>)>>,
                         <<"accessToken", Str(<<props.accessToken>>)>> >>), -1)

\* the me handler's text
IdentityText ==
    JSONstringify(Obj(<< <<"email", Str(<<props.email>>)>>,
                         <<"full_name", Str(<<props.full_name>>)>> >>), -1)

\* the map callback returning the task as it came
Mut_ProjectTask_whole(task) == task

\* get_tasks_by_filter's tasks.map(...): lines 69-73
ProjectTask(task) ==
    LET due == Prop(task, "due")
        date == IF due.t \in {"null", "undefined"} THEN Undefined
                ELSE Prop(due, "date")
    IN  Obj(<< <<"content", Prop(task, "content")>>,
               <<"description", Prop(task, "description")>>,
               <<"due_date", IF Truthy(date) THEN date ELSE Null>> >>)

FormatTasks(tasks) ==
    IF tasks.t \in {"null", "undefined"}
    THEN Threw(<<"Cannot read properties of null (reading 'map')">>)
    ELSE IF tasks.t # "array" THEN Threw(<<"tasks.map is not a function">>)
    ELSE IF \E i \in 1 .. Len(tasks.f) : tasks.f[i][2].t \in {"null", "undefined"}
    THEN Threw(<<"Cannot read properties of null (reading 'content')">>)
    ELSE Returned(Arr([i \in 1 .. Len(tasks.f) |-> ProjectTask(tasks.f[i][2])]))

\* the try block after the awaited Client call: the text, or what it throws
SuccessText(d, value) ==
    CASE d.okText = "json" -> Returned(JSONstringify(value, 0))
      [] d.okText = "moved" ->
            Returned(<<"Task moved successfully.\n">> \o JSONstringify(value, 0))
      [] d.okText = "projection" ->
            LET formatted == FormatTasks(value)
            IN  IF formatted.thrown THEN formatted
                ELSE Returned(JSONstringify(formatted.value, 0))
      [] OTHER -> Returned(<<d.okText>>)

\* get_tasks_by_filter's reshaping moved out of the try block
Mut_CatchesFailure_nofilter(d) ==
    d.client # "none" /\ d.okText # "projection"

\* every handler but me wraps its body in try/catch
CatchesFailure(d) == d.client # "none"

\* a catch block that renders what is no Error with String(error)
Mut_ErrorText_string(d, thrown) ==
    <<"Error " \o d.action \o ": ">>
    \o (IF thrown.isErrorObject THEN thrown.message
        ELSE ToJsString(thrown.value))

\* the catch block
ErrorText(d, thrown) ==
    <<"Error " \o d.action \o ": ">>
    \o (IF thrown.isErrorObject THEN thrown.message
        ELSE <<"Unknown error occurred">>)

\* the catch block returning its text without `isError: true`
Mut_Fail_noflag(call, d, thrown) ==
    [call EXCEPT !.pc = "done",
                 !.result = [text |-> <<"Error " \o d.action \o ": ">>
                                      \o thrown.message,
                             isError |-> "absent"]]

\* a catch block that throws again what it caught
Mut_Fail_rethrow(call, d, thrown) == [call EXCEPT !.pc = "thrown"]

\* a value thrown in the handler: caught and rendered, or left to the transport
Fail(call, d, thrown) ==
    IF CatchesFailure(d)
    THEN [call EXCEPT !.pc = "done",
                      !.result = [text |-> ErrorText(d, thrown),
                                  isError |-> "true"]]
    ELSE [call EXCEPT !.pc = "thrown"]

Succeed(call, text) ==
    [call EXCEPT !.pc = "done",
                 !.result = [text |-> text, isError |-> "absent"]]

\* the handler up to its first await, or to its return when it has none
Start(name, args, uuid) ==
    LET d == Descriptor(name)
        call == [Idle EXCEPT !.tool = name, !.args = args]
        built == BuildRecord(d.params, args)
        token == props.accessToken
        sent(req) == [call EXCEPT !.pc = "awaiting", !.built = built,
                                  !.req = req, !.calls = 1]
    IN  CASE d.client = "none" -> Succeed(call, IdentityText)
          [] d.client = "moveTask" ->
                IF NoDestination(args)
                THEN [call EXCEPT !.pc = "done",
                                  !.result = [text |-> NoDestinationText,
                                              isError |-> "true"]]
                ELSE [sent(ClientMoveTask(token, uuid, Get(args, "task_id"), built))
                        EXCEPT !.uuid = uuid]
          [] d.client = "get" -> sent(ClientGet(token, EndpointOf(d, args), built))
          [] d.client = "post" -> sent(ClientPost(token, EndpointOf(d, args), built))
          [] OTHER -> sent(ClientDelete(token, EndpointOf(d, args)))

\* a handler that calls the Client again when its first call threw
Mut_Resume_retry(call, resp) ==
    LET d == Descriptor(call.tool)
        got == [call EXCEPT !.resp = resp]
        outcome == ClientOutcome(d, call, resp)
        text == SuccessText(d, outcome.value)
    IN  IF outcome.thrown /\ call.calls < 2
        THEN [call EXCEPT !.calls = @ + 1]
        ELSE IF outcome.thrown THEN Fail(got, d, outcome)
        ELSE IF text.thrown THEN Fail(got, d, text)
        ELSE Succeed(got, text.value)

\* the rest of the handler, once the awaited fetch has settled with `resp`
Resume(call, resp) ==
    LET d == Descriptor(call.tool)
        got == [call EXCEPT !.resp = resp]
        outcome == ClientOutcome(d, call, resp)
        text == SuccessText(d, outcome.value)
    IN  IF outcome.thrown THEN Fail(got, d, outcome)
        ELSE IF text.thrown THEN Fail(got, d, text)
        ELSE Succeed(got, text.value)

---------------------------------------------------------------------------
(* The session *)

Emails == {"ann@example.com"}
FullNames == {"Ann"}
AccessTokens == {"token-1"}
\* names shouldRegisterTool may be asked about that no descriptor carries
OtherNames == {"delete_everything", ""}

NoProbe == [name |-> "", asked |-> FALSE, answer |-> FALSE]

\* what any caller may hand to client.get as `params`: Record<string, unknown>
ParamKeys == {"filter", "cursor", "limit"}
ParamValues ==
    {Undefined, Null, Str(<<>>), Str(<<"a">>), Str(<<"a", " ", "b">>),
     Num(0), Num(5), Bool(FALSE), Bool(TRUE), Arr(<<>>)}
RECURSIVE ParamPairs(_, _)
ParamPairs(keys, n) ==
    {<<>>} \cup
    (IF n = 0 THEN {}
     ELSE UNION {{<< <<k, v>> >> \o r : v \in ParamValues,
                                        r \in ParamPairs(keys \ {k}, n - 1)}
                 : k \in keys})
ParamRecords == {Obj(pairs) : pairs \in ParamPairs(ParamKeys, MaxParams)}

NoDirect == [op |-> "none", params |-> Undefined, req |-> NoRequest]

\* nothing is known of an earlier session
NoEarlier ==
    [known |-> FALSE, names |-> {}, me |-> <<>>,
     props |-> [email |-> "", full_name |-> "", accessToken |-> ""]]

Init ==
    /\ MINIMAL_TOOL_SET \in BOOLEAN
    /\ props \in [email : Emails, full_name : FullNames,
                  accessToken : AccessTokens]
    /\ tools = <<>>
    /\ initialized = FALSE
    /\ inv = [i \in Slots |-> Idle]
    /\ probe = NoProbe
    /\ direct = NoDirect
    /\ sawError = FALSE
    /\ earlier = NoEarlier

\* TodoistMCP.init()
ServerInit ==
    /\ ~initialized
    /\ initialized' = TRUE
    /\ tools' = tools \o Registrations(Catalogue)
    /\ UNCHANGED <<MINIMAL_TOOL_SET, props, inv, probe, direct, sawError,
                   earlier>>

\* one evaluation of shouldRegisterTool on any name
AskFilter(name) ==
    /\ probe' = [name |-> name, asked |-> TRUE,
                 answer |-> shouldRegisterTool(name)]
    /\ UNCHANGED <<MINIMAL_TOOL_SET, props, tools, initialized, inv, direct,
                   sawError, earlier>>

\* uuids of the move commands that are awaiting their answer
InFlightUuids ==
    {inv[j].uuid : j \in {k \in Slots : inv[k].pc = "awaiting"}} \ {""}

LowestFree(i) ==
    /\ inv[i].pc = "idle"
    /\ \A j \in Slots : j < i => inv[j].pc # "idle"

\* the transport runs a registered tool's handler in the lowest free slot
Invoke(i, name, args, uuid) ==
    /\ initialized
    /\ name \in Registered
    /\ LowestFree(i)
    /\ uuid \notin InFlightUuids
    /\ inv' = [inv EXCEPT ![i] = Start(name, args, uuid)]
    /\ UNCHANGED <<MINIMAL_TOOL_SET, props, tools, initialized, probe, direct,
                   sawError, earlier>>

\* a handler that drops the session's token when the upstream refuses
Mut_Respond_signout(i, resp) ==
    /\ inv[i].pc = "awaiting"
    /\ inv' = [inv EXCEPT ![i] = Resume(@, resp)]
    /\ props' = IF resp.kind = "http" /\ ~Ok(resp)
                THEN [props EXCEPT !.accessToken = ""] ELSE props
    /\ UNCHANGED <<MINIMAL_TOOL_SET, tools, initialized, probe, direct,
                   sawError, earlier>>

\* the awaited fetch settles and the handler runs to its return
Respond(i, resp) ==
    /\ inv[i].pc = "awaiting"
    /\ inv' = [inv EXCEPT ![i] = Resume(@, resp)]
    /\ UNCHANGED <<MINIMAL_TOOL_SET, props, tools, initialized, probe, direct,
                   sawError, earlier>>

\* the transport sends the returned ToolResult to the caller
SendResult(i) ==
    /\ inv[i].pc = "done"
    /\ inv' = [inv EXCEPT ![i] = Idle]
    /\ UNCHANGED <<MINIMAL_TOOL_SET, props, tools, initialized, probe, direct,
                   earlier>>

Deliver(i) == SendResult(i) /\ UNCHANGED sawError

\* the same, with the caller noting a result that reports an error
DeliverNoted(i) ==
    /\ SendResult(i)
    /\ sawError' = (sawError \/ inv[i].result.isError = "true")

\* a caller that waits for each result before its next call
NoneInFlight == initialized /\ \A j \in Slots : inv[j].pc = "idle"

\* only moveTask draws a uuid
UuidsFor(name) == IF name = "move_task" THEN UUIDs ELSE {""}

Next ==
    \/ ServerInit
    \/ /\ NoneInFlight
       /\ \E i \in {j \in Slots : LowestFree(j)}, name \in Registered :
             \E args \in ArgsOf[name], uuid \in UuidsFor(name) :
                Invoke(i, name, args, uuid)
    \/ \E i \in Slots : \E resp \in Responses(inv[i]) : Respond(i, resp)
    \/ \E i \in Slots : Deliver(i)

Spec == Init /\ [][Next]_vars

\* the filter asked directly, beside init
NextFilter ==
    \/ ServerInit
    \/ \E name \in CatalogueNames \cup OtherNames : AskFilter(name)

SpecFilter == Init /\ [][NextFilter]_vars

\* client.get called on its own, up to the fetch it issues
DirectGet(endpoint, params) ==
    /\ direct.op = "none"
    /\ direct' = [op |-> "get", params |-> params,
                  req |-> ClientGet(props.accessToken, endpoint, params)]
    /\ UNCHANGED <<MINIMAL_TOOL_SET, props, tools, initialized, inv, probe,
                   sawError, earlier>>

\* the direct call is over
DirectReturn ==
    /\ direct.op # "none"
    /\ direct' = NoDirect
    /\ UNCHANGED <<MINIMAL_TOOL_SET, props, tools, initialized, inv, probe,
                   sawError, earlier>>

NextGet ==
    \/ \E params \in ParamRecords : DirectGet(<<"/tasks">>, params)
    \/ DirectReturn

SpecGet == Init /\ [][NextGet]_vars

\* task contents: every string of up to MaxContentLen of these characters
ContentChars == {"n", "\"", "\\", "\n"}
ContentStrings ==
    UNION {[1 .. k -> ContentChars] : k \in 0 .. MaxContentLen}

\* an upstream that answers a post with the body it was sent
RespondEcho(i) ==
    /\ inv[i].pc = "awaiting"
    /\ inv[i].req.method = "POST"
    /\ Respond(i, Http(200, inv[i].req.body))

\* create_task({content}) calls against the echoing upstream
NextEcho ==
    \/ ServerInit
    \/ /\ NoneInFlight
       /\ \E i \in {j \in Slots : LowestFree(j)}, c \in ContentStrings :
             Invoke(i, "create_task", Obj(<< <<"content", Str(c)>> >>), "")
    \/ \E i \in Slots : RespondEcho(i)
    \/ \E i \in Slots : Deliver(i)

SpecEcho == Init /\ [][NextEcho]_vars

---------------------------------------------------------------------------
(* Properties *)

Done(i) == inv[i].pc = "done"

\* `sub` occurs in `text` as a run of consecutive tokens
Contains(text, sub) ==
    \E k \in 0 .. Len(text) - Len(sub) :
        \A j \in 1 .. Len(sub) : text[k + j] = sub[j]

\* C1: in minimal mode, once init has run, the registered names are exactly
\* the essential names that the catalogue holds: nothing outside the
\* essential set is registered and no essential descriptor is left out.
C1_MinimalRegistersEssential ==
    (initialized /\ MINIMAL_TOOL_SET)
        => Registered = ESSENTIAL_TOOLS \cap CatalogueNames

\* init has run in minimal mode and registered both a tool that has no guard
\* and one that is guarded
C1_Witness ==
    /\ initialized
    /\ MINIMAL_TOOL_SET
    /\ "get_tasks_by_filter" \in Registered
    /\ "get_labels" \in Registered
    /\ "me" \notin Registered

\* C2: shouldRegisterTool answers true exactly when minimal mode is off or
\* the name is essential, whatever the name (in the catalogue or not) and
\* whatever the mode.
C2_FilterContract ==
    probe.asked =>
        (probe.answer <=> (~MINIMAL_TOOL_SET \/ probe.name \in ESSENTIAL_TOOLS))

\* the filter was asked, in minimal mode, about a name no descriptor carries
C2_Witness ==
    /\ probe.asked
    /\ MINIMAL_TOOL_SET
    /\ probe.name \notin CatalogueNames
    /\ ~probe.answer

\* C3: init registers exactly 16 tools in minimal mode and exactly 39 in
\* full mode.
C3_ToolCounts ==
    initialized => Len(tools) = IF MINIMAL_TOOL_SET THEN 16 ELSE 39


\* what the answer in slot i is, read off the response alone
HttpSuccess(i) == inv[i].resp.kind = "http" /\ Ok(inv[i].resp)
HttpFailure(i) == inv[i].resp.kind = "http" /\ ~Ok(inv[i].resp)
BodyIsJson(i) == ~ResponseJson(inv[i].resp).thrown
BodyValue(i) == ResponseJson(inv[i].resp).value
\* the status map of a move answer, and its entry for the command's uuid
StatusMap(i) == Prop(BodyValue(i), "sync_status")
HasStatusEntry(i) ==
    /\ HttpSuccess(i) /\ BodyIsJson(i)
    /\ BodyValue(i).t = "object" /\ StatusMap(i).t = "object"
    /\ inv[i].uuid \in Keys(StatusMap(i))
StatusEntry(i) == Get(StatusMap(i), inv[i].uuid)

IsMove(i) == inv[i].tool = "move_task"
Destinations == {"project_id", "section_id", "parent_id"}

\* C4: a move_task call that reached the Client returns a non-error result
\* only if the HTTP exchange succeeded and the status map of the answer has
\* "ok" under this command's uuid; every other answer ends in isError.
C4_MoveSucceedsOnlyOnOk ==
    \A i \in Slots :
        (Done(i) /\ IsMove(i) /\ inv[i].result.isError = "absent")
            => (HasStatusEntry(i) /\ StatusEntry(i) = Str(<<"ok">>))

\* C5: move_task called with no destination field at all returns isError
\* and has called no Client operation and sent no request.
C5_MoveWithoutDestination ==
    \A i \in Slots :
        (IsMove(i) /\ Keys(inv[i].args) \cap Destinations = {})
            => /\ Done(i)
               /\ inv[i].result.isError = "true"
               /\ inv[i].calls = 0
               /\ inv[i].req = NoRequest

\* a move_task call that named only the task has returned
C5_Witness ==
    \E i \in Slots :
        /\ Done(i) /\ IsMove(i)
        /\ Keys(inv[i].args) = {"task_id"}
        /\ inv[i].result.text = NoDestinationText

\* C6: when the move answer is an HTTP success whose status map holds an
\* entry for the command's uuid that is not "ok", move_task returns isError
\* and its text carries that entry, as JSON.
C6_MoveRefusalReported ==
    \A i \in Slots :
        (Done(i) /\ IsMove(i) /\ HasStatusEntry(i)
              /\ StatusEntry(i) # Str(<<"ok">>))
            => /\ inv[i].result.isError = "true"
               /\ Contains(inv[i].result.text, JSONtext(StatusEntry(i), -1))

\* the command endpoint answered 200 and refused the command with an error
\* object
C6_Witness ==
    \E i \in Slots :
        /\ Done(i) /\ IsMove(i) /\ HasStatusEntry(i)
        /\ StatusEntry(i) = MoveRefused
        /\ inv[i].result.isError = "true"

\* C7: whenever the upstream answers a Client call with a non-success
\* status and a raw body, the handler returns isError and a text that
\* contains the status code and the body.
C7_UpstreamErrorReported ==
    \A i \in Slots :
        (inv[i].pc \in {"done", "thrown"} /\ HttpFailure(i))
            => /\ Done(i)
               /\ inv[i].result.isError = "true"
               /\ Contains(inv[i].result.text, <<ToString(inv[i].resp.status)>>)
               /\ Contains(inv[i].result.text, inv[i].resp.body)

\* a REST call was answered 404 with a body
C7_Witness ==
    \E i \in Slots :
        /\ Done(i) /\ inv[i].tool = "close_task"
        /\ inv[i].resp = Http(404, NotJson)
        /\ inv[i].result.isError = "true"

\* the Client operation of slot i threw; the handler threw after it returned
ClientFailed(i) ==
    /\ inv[i].calls = 1
    /\ \/ inv[i].resp.kind = "network"
       \/ HttpFailure(i)
       \/ HttpSuccess(i) /\ inv[i].resp.status # 204 /\ ~BodyIsJson(i)
       \/ /\ IsMove(i) /\ HttpSuccess(i)
          /\ \/ ~BodyIsJson(i)
             \/ BodyValue(i).t = "null"
             \/ Truthy(StatusMap(i)) /\ Prop(StatusMap(i), inv[i].uuid) # Str(<<"ok">>)
Payload(i) ==
    IF inv[i].resp.status = 204 /\ ~IsMove(i) THEN Null ELSE BodyValue(i)
ReshapeFailed(i) ==
    /\ inv[i].calls = 1 /\ ~ClientFailed(i)
    /\ inv[i].tool = "get_tasks_by_filter"
    /\ \/ Payload(i).t # "array"
       \/ \E n \in 1 .. Len(Payload(i).f) :
              Payload(i).f[n][2].t \in {"null", "undefined"}
PreconditionFailed(i) ==
    /\ IsMove(i)
    /\ \A k \in Destinations : ~Truthy(Get(inv[i].args, k))

\* C8: no invocation leaves a failure to the transport: whatever the Client
\* call or the reshaping of its result throws, the handler returns a
\* ToolResult with isError whose text starts "Error <action>: ".
C8_FailuresAreReturned ==
    \A i \in Slots :
        /\ inv[i].pc # "thrown"
        /\ (inv[i].pc \notin {"idle", "awaiting"}
                /\ (ClientFailed(i) \/ ReshapeFailed(i)))
              => /\ Done(i)
                 /\ inv[i].result.isError = "true"
                 /\ Len(inv[i].result.text) >= 2
                 /\ inv[i].result.text[1]
                        = "Error " \o Descriptor(inv[i].tool).action \o ": "

\* the filtered task query got a null payload and returned an error result
C8_Witness ==
    \E i \in Slots :
        /\ Done(i) /\ inv[i].tool = "get_tasks_by_filter"
        /\ inv[i].resp = Http(200, <<"null">>)
        /\ ReshapeFailed(i)
        /\ inv[i].result.isError = "true"

\* the invocation in slot i failed: at its precondition, in its Client call,
\* or while reshaping what the Client returned
AnyFailure(i) == PreconditionFailed(i) \/ ClientFailed(i) \/ ReshapeFailed(i)
FixedConfirmation(i) ==
    Descriptor(inv[i].tool).okText
        \notin {"json", "identity", "projection", "moved"}

\* C9 as stated: a returned ToolResult has isError exactly when the
\* precondition or the Client call failed, and otherwise its text is the
\* pretty JSON of the upstream payload or the tool's fixed confirmation.
C9_EnvelopeAsStated ==
    \A i \in Slots :
        Done(i) =>
            LET failed == PreconditionFailed(i) \/ ClientFailed(i)
            IN  /\ (inv[i].result.isError = "true") <=> failed
                /\ ~failed =>
                      /\ inv[i].result.isError = "absent"
                      /\ \/ /\ FixedConfirmation(i)
                            /\ inv[i].result.text
                                   = <<Descriptor(inv[i].tool).okText>>
                         \/ /\ inv[i].calls = 1
                            /\ inv[i].result.text
                                   = JSONstringify(Payload(i), 0)

\* the text each tool returns when nothing failed
ExpectedText(i) ==
    CASE inv[i].tool = "me" ->
             JSONtext(Obj(<< <<"email", Str(<<props.email>>)>>,
                             <<"full_name", Str(<<props.full_name>>)>> >>), -1)
      [] inv[i].tool = "get_tasks_by_filter" ->
             JSONstringify(FormatTasks(Payload(i)).value, 0)
      [] inv[i].tool = "move_task" ->
             <<"Task moved successfully.\n">> \o JSONstringify(Payload(i), 0)
      [] FixedConfirmation(i) -> <<Descriptor(inv[i].tool).okText>>
      [] OTHER -> JSONstringify(Payload(i), 0)

\* C9, amended: isError is set exactly when the precondition, the Client
\* call or the reshaping of the payload failed; otherwise isError is absent
\* and the text is the tool's fixed confirmation, the JSON of the upstream
\* payload, the JSON of its projection (get_tasks_by_filter), that JSON
\* after "Task moved successfully." (move_task), or the session identity
\* (me).
C9_Envelope ==
    \A i \in Slots :
        Done(i) =>
            /\ (inv[i].result.isError = "true") <=> AnyFailure(i)
            /\ ~AnyFailure(i) =>
                  /\ inv[i].result.isError = "absent"
                  /\ inv[i].result.text = ExpectedText(i)

\* a move was confirmed by the command endpoint and the handler returned
\* the confirmation followed by the payload
C9_Witness ==
    \E i \in Slots :
        /\ Done(i) /\ IsMove(i) /\ HasStatusEntry(i)
        /\ StatusEntry(i) = Str(<<"ok">>)
        /\ inv[i].result.isError = "absent"
        /\ inv[i].result.text[1] = "Task moved successfully.\n"

IsOptional(p) == p.rule \in {"truthy", "defined"}
BuiltHas(i, k) == k \in DefinedKeys(inv[i].built)
Supplied(i, k) == k \in Keys(inv[i].args)

\* C10 as stated: the record a handler builds for the Client holds an
\* optional parameter's key exactly when the caller supplied the parameter.
C10_SuppliedIffSent ==
    \A i \in Slots :
        inv[i].calls = 1 =>
            \A n \in 1 .. Len(Descriptor(inv[i].tool).params) :
                LET p == Descriptor(inv[i].tool).params[n]
                IN  IsOptional(p) => (BuiltHas(i, p.k) <=> Supplied(i, p.k))

\* the moves callers make side by side
MoveCalls ==
    {Obj(<< <<"task_id", Str(<<"a">>)>>, <<"project_id", Str(<<"a">>)>> >>),
     Obj(<< <<"task_id", Str(<<"a">>)>> >>)}

\* answers of the command endpoint to the move in `call`
MoveResponses(call) ==
    {Http(500, <<>>)}
    \cup {Http(200, JSONtext(v, -1)) :
             v \in {SyncStatus(<< <<call.uuid, Str(<<"ok">>)>> >>)}
                   \cup SharedPayloads(call.uuid)}

\* move_task calls accepted while earlier ones still await their answer,
\* answered in any order
NextMove ==
    \/ ServerInit
    \/ \E i \in Slots, args \in MoveCalls, uuid \in UUIDs :
          Invoke(i, "move_task", args, uuid)
    \/ \E i \in Slots : \E resp \in MoveResponses(inv[i]) : Respond(i, resp)
    \/ \E i \in Slots : Deliver(i)

SpecMove == Init /\ [][NextMove]_vars

\* the argument records that name only what a tool requires
PlainArgs == [name \in CatalogueNames |->
                {Obj(pairs) : pairs \in ArgPairs(Descriptor(name).params, 0)}]

\* a caller working through the registered tools, one call after the other,
\* and noting the results that report an error
NextSession ==
    \/ ServerInit
    \/ /\ NoneInFlight
       /\ \E i \in {j \in Slots : LowestFree(j)}, name \in Registered :
             \E args \in PlainArgs[name], uuid \in UuidsFor(name) :
                Invoke(i, name, args, uuid)
    \/ \E i \in Slots : \E resp \in Responses(inv[i]) : Respond(i, resp)
    \/ \E i \in Slots : DeliverNoted(i)

SpecSession == Init /\ [][NextSession]_vars

\* the fetch of slot i settles: the upstream answers or the network fails
Settle(i) ==
    /\ inv[i].pc = "awaiting"
    /\ \E resp \in Responses(inv[i]) : Respond(i, resp)

\* the same caller, with every pending fetch settling in the end
SpecLive ==
    /\ Init /\ [][NextSession]_vars
    /\ \A i \in Slots : WF_vars(Settle(i))

\* the entries of the request's query under key k
QueryCount(req, k) ==
    Cardinality({n \in 1 .. Len(req.query) : req.query[n][1] = k})

\* C11: client.get puts a key of its params record into the request URL
\* exactly when the key's value is truthy: a key whose value is "", 0, false,
\* null or undefined has no entry, every other key has exactly one entry,
\* carrying String(value), and the URL holds it form-encoded.
C11_GetKeepsTruthy ==
    direct.op = "get" =>
        \A n \in 1 .. Len(direct.params.f) :
            LET k == direct.params.f[n][1]
                v == direct.params.f[n][2]
                falsy == \/ v.t \in {"undefined", "null"}
                         \/ v = Str(<<>>) \/ v = Num(0) \/ v = Bool(FALSE)
            IN  /\ falsy => /\ QueryCount(direct.req, k) = 0
                            /\ ~Contains(direct.req.url, <<k, "=">>)
                /\ ~falsy =>
                      /\ QueryCount(direct.req, k) = 1
                      /\ \E m \in 1 .. Len(direct.req.query) :
                            direct.req.query[m] = <<k, ToJsString(v)>>
                      /\ Contains(direct.req.url,
                                  <<k, "=">> \o FormEncode(ToJsString(v)))

\* client.get was handed a zero limit beside a cursor and sent only the
\* cursor
C11_Witness ==
    /\ direct.op = "get"
    /\ direct.params = Obj(<< <<"limit", Num(0)>>, <<"cursor", Str(<<"a">>)>> >>)
    /\ direct.req.url = <<API_BASE_URL, "/tasks", "?", "cursor", "=", "a">>

\* the JSON body of the request has member k with value v
BodyHas(req, k, v) ==
    Contains(req.body, <<"\"", k, "\"", ":">> \o JSONtext(v, -1))
\* the query of the request has exactly one entry for k, holding chars
QueryHas(req, k, chars) ==
    /\ QueryCount(req, k) = 1
    /\ \E m \in 1 .. Len(req.query) : req.query[m] = <<k, chars>>

\* C12: the filter of get_tasks_by_filter and the due_string of create_task
\* and update_task are in the request exactly as the caller gave them, for
\* every string including the empty one: the key is never dropped.
C12_ForwardedVerbatim ==
    \A i \in Slots :
        inv[i].calls = 1 =>
            /\ inv[i].tool = "get_tasks_by_filter"
                  => QueryHas(inv[i].req, "filter", Get(inv[i].args, "filter").s)
            /\ (inv[i].tool \in {"create_task", "update_task"}
                    /\ "due_string" \in Keys(inv[i].args))
                  => BodyHas(inv[i].req, "due_string",
                             Get(inv[i].args, "due_string"))

UpdateTools == {"update_project", "update_task", "update_label"}
\* the fields a caller gave beside the id that goes into the path
SuppliedFields(i) ==
    {k \in Keys(inv[i].args) :
        \E n \in 1 .. Len(Descriptor(inv[i].tool).params) :
            /\ Descriptor(inv[i].tool).params[n].k = k
            /\ Descriptor(inv[i].tool).params[n].opt}
BodyNames(req, k) == Contains(req.body, <<"\"", k, "\"", ":">>)

\* C13: update_project, update_task and update_label make one Client post
\* whose body holds exactly the optional fields the caller supplied, each
\* with the supplied value; called with the id alone, the body is {}.
C13_UpdateBodyIsSupplied ==
    \A i \in Slots :
        (inv[i].tool \in UpdateTools /\ inv[i].pc # "idle") =>
            /\ inv[i].calls = 1
            /\ inv[i].req.method = "POST"
            /\ \A n \in 1 .. Len(Descriptor(inv[i].tool).params) :
                  LET k == Descriptor(inv[i].tool).params[n].k
                  IN  IF k \in SuppliedFields(i)
                      THEN BodyHas(inv[i].req, k, Get(inv[i].args, k))
                      ELSE ~BodyNames(inv[i].req, k)
            /\ DefinedKeys(inv[i].built) = SuppliedFields(i)
            /\ SuppliedFields(i) = {} => inv[i].req.body = <<"{}">>

\* update_project was called with its id alone and posted {}
C13_Witness ==
    \E i \in Slots :
        /\ inv[i].tool = "update_project" /\ inv[i].pc = "awaiting"
        /\ Keys(inv[i].args) = {"project_id"}
        /\ inv[i].req.body = <<"{}">>
        /\ inv[i].req.url = <<API_BASE_URL, "/projects/", "a">>

TaskFilters == {"project_id", "section_id", "parent_id", "label", "ids"}
QueryKeys(req) == {req.query[n][1] : n \in 1 .. Len(req.query)}

\* C14: get_tasks called with a non-empty cursor and a limit makes one
\* Client get on /tasks whose query holds cursor and limit as given, every
\* filter the caller supplied, and nothing else.
C14_PaginationPassthrough ==
    \A i \in Slots :
        (/\ inv[i].tool = "get_tasks" /\ inv[i].pc # "idle"
         /\ "limit" \in Keys(inv[i].args)
         /\ "cursor" \in Keys(inv[i].args)
         /\ Get(inv[i].args, "cursor") # Str(<<>>)) =>
            /\ inv[i].calls = 1
            /\ inv[i].req.method = "GET"
            /\ SubSeq(inv[i].req.url, 1, 2) = <<API_BASE_URL, "/tasks">>
            /\ QueryKeys(inv[i].req)
                  = {"cursor", "limit"} \cup (Keys(inv[i].args) \cap TaskFilters)
            /\ \A k \in QueryKeys(inv[i].req) :
                  QueryHas(inv[i].req, k, ToJsString(Get(inv[i].args, k)))

\* C15: create_task({content}) answered by an upstream that echoes the
\* posted body returns no error, and its text parses as JSON to an object
\* whose content is the supplied string.
C15_CreateRoundTrip ==
    \A i \in Slots :
        (/\ Done(i) /\ inv[i].tool = "create_task"
         /\ Keys(inv[i].args) = {"content"}
         /\ inv[i].resp = Http(200, inv[i].req.body)) =>
            /\ inv[i].result.isError = "absent"
            /\ ParseStringObject(inv[i].result.text).ok
            /\ Get(ParseStringObject(inv[i].result.text).value, "content")
                  = Get(inv[i].args, "content")

\* a content holding a quote and a line break came back unchanged
C15_Witness ==
    \E i \in Slots :
        /\ Done(i) /\ inv[i].tool = "create_task"
        /\ inv[i].args = Obj(<< <<"content", Str(<<"\"", "\n", "n">>)>> >>)
        /\ inv[i].resp = Http(200, inv[i].req.body)
        /\ inv[i].result.isError = "absent"

\* the Client calls the invocation in slot i has to make
CallsDue(i) ==
    IF inv[i].tool = "me" \/ PreconditionFailed(i) THEN 0 ELSE 1

\* C16: an invocation calls the Client once - never, for me and for a move
\* without destination - and sends at most one request: once the request
\* is out, the answer, whatever it is, ends the invocation with the same
\* single request on record; nothing is sent again.
C16_OneClientCall ==
    /\ [](\A i \in Slots :
            inv[i].pc # "idle" =>
                /\ inv[i].calls = CallsDue(i)
                /\ (inv[i].req = NoRequest) <=> (inv[i].calls = 0))
    /\ [][\A i \in Slots :
            /\ inv[i].pc = "awaiting" =>
                  /\ inv'[i].pc \in {"awaiting", "done"}
                  /\ inv'[i].calls = inv[i].calls
                  /\ inv'[i].req = inv[i].req
            /\ inv[i].pc = "done" => inv'[i].pc \in {"done", "idle"}]_vars

\* a call was answered 500 and the invocation ended with its one request
C16_Witness ==
    \E i \in Slots :
        /\ Done(i) /\ inv[i].resp = Http(500, <<>>)
        /\ inv[i].calls = 1 /\ inv[i].req.method = "GET"
        /\ inv[i].result.isError = "true"

Moving(i) == IsMove(i) /\ inv[i].pc = "awaiting"

\* C17: with several move_task calls in flight and answered in any order,
\* the moves in flight carry pairwise distinct uuids, an answer ends only
\* the invocation it was given to, and where the answer holds a status map
\* the invocation succeeds exactly when the entry under its own uuid is
\* "ok", whatever the map says about other commands.
C17_MoveOutcomeIsOwn ==
    /\ [](\A i, j \in Slots :
            (i # j /\ Moving(i) /\ Moving(j)) => inv[i].uuid # inv[j].uuid)
    /\ [](\A i \in Slots :
            (Done(i) /\ IsMove(i) /\ inv[i].calls = 1 /\ HttpSuccess(i)
                 /\ BodyIsJson(i) /\ StatusMap(i).t = "object")
               => ((inv[i].result.isError = "absent")
                      <=> (Prop(StatusMap(i), inv[i].uuid) = Str(<<"ok">>))))
    /\ [][\A i, j \in Slots :
            (i # j /\ Moving(i) /\ inv'[i].pc = "done")
               => inv'[j] = inv[j]]_vars

\* two moves in flight: the later one was refused and the earlier one still
\* waits; the refusal's answer also reports the earlier command as ok
C17_Witness ==
    \E i, j \in Slots :
        /\ Moving(i)
        /\ Done(j) /\ IsMove(j) /\ HasStatusEntry(j)
        /\ StatusEntry(j) = MoveRefused
        /\ Prop(StatusMap(j), inv[i].uuid) = Str(<<"ok">>)
        /\ inv[j].result.isError = "true"

\* the transport can run the handler of `name` now: a slot is free, a uuid
\* is to be had, and the handler runs to its await or to its return
CanInvoke(name) ==
    /\ initialized
    /\ name \in Registered
    /\ \E i \in Slots : LowestFree(i)
    /\ \E args \in PlainArgs[name], uuid \in UuidsFor(name) :
          /\ uuid \notin InFlightUuids
          /\ Start(name, args, uuid).pc \in {"awaiting", "done"}

\* C18: no call ends the session.  No invocation leaves its failure to the
\* transport, and once a caller has been sent an isError result the tool
\* table is still the one init built, every registered tool can be invoked
\* as soon as a slot is free, every answer to a pending call yields a
\* ToolResult, and every ToolResult can be sent.
C18_SessionSurvives ==
    /\ [](\A i \in Slots : inv[i].pc \in {"idle", "awaiting", "done"})
    /\ [](sawError =>
            /\ initialized
            /\ tools = Registrations(Catalogue)
            /\ (\E i \in Slots : inv[i].pc = "idle") =>
                  \A name \in Registered : CanInvoke(name)
            /\ \A i \in Slots :
                  /\ inv[i].pc = "awaiting" =>
                        \A resp \in Responses(inv[i]) :
                           Resume(inv[i], resp).pc = "done"
                  /\ inv[i].pc = "done" => ENABLED DeliverNoted(i))
    /\ [][sawError => (sawError' /\ tools' = tools /\ initialized')]_vars

\* after an isError result was sent, a later call has returned a payload
C18_Witness ==
    /\ sawError
    /\ \E i \in Slots :
          /\ Done(i) /\ inv[i].calls = 1
          /\ inv[i].result.isError = "absent"

\* C19: given that every pending fetch settles, an invocation that awaits
\* the upstream ends with a ToolResult; and nothing takes an awaiting
\* invocation anywhere but to its result - it is not cancelled.
C19_AwaitingFinishes ==
    /\ \A i \in Slots : (inv[i].pc = "awaiting") ~> Done(i)
    /\ [][\A i \in Slots :
            inv[i].pc = "awaiting" => inv'[i].pc \in {"awaiting", "done"}]_vars

\* the network failed under a pending call and the call ended with a result
C19_Witness ==
    \E i \in Slots :
        /\ Done(i) /\ inv[i].calls = 1
        /\ inv[i].resp = NetworkFailure
        /\ inv[i].result.isError = "true"

\* the three fields the filtered query keeps of an upstream task
Kept(task) ==
    Obj(<< <<"content", Get(task, "content")>>,
           <<"description", Get(task, "description")>>,
           <<"due_date",
             IF Get(task, "due").t = "object"
                    /\ "date" \in Keys(Get(task, "due"))
             THEN Get(Get(task, "due"), "date") ELSE Null>> >>)
IsTaskList(v) ==
    /\ v.t = "array"
    /\ \A n \in 1 .. Len(v.f) : v.f[n][2].t = "object"

C21_OnlyMeSkipsClient ==
    \A i \in Slots :
        inv[i].pc # "idle" =>
            /\ inv[i].tool = "me" =>
                  /\ Done(i)
                  /\ inv[i].calls = 0 /\ inv[i].req = NoRequest
                  /\ inv[i].result.isError = "absent"
                  /\ inv[i].result.text
                        = <<"{", "\"", "email", "\"", ":", "\"", props.email,
                            "\"", ",", "\"", "full_name", "\"", ":", "\"",
                            props.full_name, "\"", "}">>
            /\ (inv[i].tool # "me" /\ ~PreconditionFailed(i)) =>
                  /\ inv[i].calls = 1
                  /\ inv[i].req # NoRequest

\* me has returned the identity of the session
C21_Witness ==
    \E i \in Slots :
        /\ Done(i) /\ inv[i].tool = "me"
        /\ Contains(inv[i].result.text, <<props.email>>)
        /\ inv[i].req = NoRequest


---------------------------------------------------------------------------
(* One session after the other *)

\* the authorization contexts later sessions may come with
LaterProps ==
    [email : Emails \cup {"bob@example.com"}, full_name : FullNames,
     accessToken : AccessTokens \cup {"token-2"}]

\* the text me returned, if its result is still at hand
MeText ==
    IF \E i \in Slots : Done(i) /\ inv[i].tool = "me"
    THEN inv[CHOOSE i \in Slots : Done(i) /\ inv[i].tool = "me"].result.text
    ELSE <<>>

\* the session ends and a new TodoistMCP is constructed for the next one:
\* a fresh McpServer, the next caller's props, and init() still to run
NewSession(p) ==
    /\ initialized
    /\ \A i \in Slots : inv[i].pc \in {"idle", "done"}
    /\ earlier' = [known |-> TRUE, props |-> props, names |-> Registered,
                   me |-> MeText]
    /\ props' = p
    /\ tools' = <<>>
    /\ initialized' = FALSE
    /\ inv' = [i \in Slots |-> Idle]
    /\ UNCHANGED <<MINIMAL_TOOL_SET, probe, direct, sawError>>

\* sessions following each other under the one compiled-in switch, each
\* with its own calls
NextReconnect ==
    \/ ServerInit
    \/ /\ NoneInFlight
       /\ \E i \in {j \in Slots : LowestFree(j)}, name \in Registered :
             \E args \in PlainArgs[name], uuid \in UuidsFor(name) :
                Invoke(i, name, args, uuid)
    \/ \E i \in Slots : \E resp \in Responses(inv[i]) : Respond(i, resp)
    \/ \E i \in Slots : Deliver(i)
    \/ \E p \in LaterProps : NewSession(p)

SpecReconnect == Init /\ [][NextReconnect]_vars

\* C22: when init has run in a session that follows another one, it has
\* registered the same set of names as the earlier session did, whatever the
\* two authorization contexts are and whatever was invoked in between.
C22_SameTableAgain ==
    (initialized /\ earlier.known) => Registered = earlier.names

\* a second session under another account and token has registered its
\* tools after me was invoked in the first
C22_Witness ==
    /\ initialized /\ earlier.known
    /\ earlier.props.email # props.email
    /\ earlier.props.accessToken # props.accessToken
    /\ earlier.me # <<>>
    /\ Registered = earlier.names
    /\ "get_tasks" \in Registered

\* the tool groups of the source, by the section comments of init()
SectionTools ==
    {"create_section", "get_sections", "get_section", "update_section",
     "delete_section"}
CompletedQueries ==
    {"get_completed_tasks_by_completion_date",
     "get_completed_tasks_by_due_date"}
LabelTools ==
    {"create_label", "get_labels", "get_label", "update_label",
     "delete_label", "get_shared_labels", "remove_shared_label",
     "rename_shared_label"}
CommentTools ==
    {"create_comment", "get_comments", "get_comment", "update_comment",
     "delete_comment"}

\* C23: in minimal mode, once init has run, the registered table holds no
\* section tool other than get_sections, no completed-task query, no label
\* tool and no comment tool.
C23_RemovedGroupsAbsent ==
    (initialized /\ MINIMAL_TOOL_SET) =>
        Registered \cap ((SectionTools \ {"get_sections"}) \cup CompletedQueries
                            \cup LabelTools \cup CommentTools) = {}

---------------------------------------------------------------------------
(* Moves of every shape, side by side *)

\* the moves callers make: one, two and no destination, and an empty one
ShapeCalls ==
    {Obj(<< <<"task_id", Str(<<"a">>)>>, <<"project_id", Str(<<"a">>)>> >>),
     Obj(<< <<"task_id", Str(<<"a">>)>>, <<"parent_id", Str(<<>>)>>,
            <<"section_id", Str(<<"a">>)>> >>),
     Obj(<< <<"task_id", Str(<<"a">>)>>, <<"project_id", Str(<<"a">>)>>,
            <<"parent_id", Str(<<"a">>)>> >>),
     Obj(<< <<"task_id", Str(<<"a">>)>> >>)}

\* the command endpoint accepting the move in `call`
Accepted(call) ==
    Http(200, JSONtext(SyncStatus(<< <<call.uuid, Str(<<"ok">>)>> >>), -1))

NextShape ==
    \/ ServerInit
    \/ \E i \in Slots, args \in ShapeCalls, uuid \in UUIDs :
          Invoke(i, "move_task", args, uuid)
    \/ \E i \in Slots : Respond(i, Accepted(inv[i]))
    \/ \E i \in Slots : Deliver(i)

SpecShape == Init /\ [][NextShape]_vars

\* the destination fields the caller supplied with a non-empty value, in the
\* order the source tests them
SuppliedDestinations(a) ==
    LET NonEmpty(k) == k \in Keys(a) /\ Get(a, k) # Str(<<>>)
    IN  SelectSeq(<<"project_id", "section_id", "parent_id">>, NonEmpty)

\* the one command the claim describes for the call in slot i
DescribedCommand(i) ==
    LET a == inv[i].args
        dest == SuppliedDestinations(a)
    IN  Obj(<< <<"type", Str(<<"item_move">>)>>,
               <<"uuid", Str(<<inv[i].uuid>>)>>,
               <<"args", Obj(<< <<"id", Get(a, "task_id")>> >>
                             \o [n \in 1 .. Len(dest) |->
                                    <<dest[n], Get(a, dest[n])>>])>> >>)

\* C24: a move request that was sent is a POST to the command endpoint, not
\* to the REST base; its body is {commands: [c]} with the single command c of
\* type item_move, whose args are the task id under `id` and exactly the
\* non-empty destination fields the caller supplied, at least one; its uuid
\* was drawn for this call and no other move awaiting its answer carries it.
C24_MoveRequestShape ==
    \A i \in Slots :
        (IsMove(i) /\ inv[i].req # NoRequest) =>
            /\ inv[i].req.method = "POST"
            /\ inv[i].req.url = <<SYNC_API_URL>>
            /\ inv[i].req.url[1] # API_BASE_URL
            /\ inv[i].req.body
                  = JSONtext(Obj(<< <<"commands",
                                      Arr(<<DescribedCommand(i)>>)>> >>), -1)
            /\ Len(SuppliedDestinations(inv[i].args)) >= 1
            /\ inv[i].uuid \in UUIDs
            /\ \A j \in Slots \ {i} :
                  (inv[i].pc = "awaiting" /\ inv[j].pc = "awaiting")
                      => inv[j].uuid # inv[i].uuid

\* two moves await their answers, one of them sent with two destinations
\* and the other with one empty destination left out
C24_Witness ==
    \E i, j \in Slots :
        /\ i # j
        /\ inv[i].pc = "awaiting" /\ inv[j].pc = "awaiting"
        /\ Len(SuppliedDestinations(inv[i].args)) = 2
        /\ "parent_id" \in Keys(inv[j].args)
        /\ Len(SuppliedDestinations(inv[j].args)) = 1
        /\ Contains(inv[j].req.body, <<"section_id">>)
        /\ ~Contains(inv[j].req.body, <<"parent_id">>)

\* the call in slot i is get_shared_labels with `args`
SharedLabelsCall(i, args) ==
    /\ inv[i].tool = "get_shared_labels"
    /\ inv[i].req # NoRequest
    /\ inv[i].args = args

\* C25: get_shared_labels({omit_personal: false}) and get_shared_labels({})
\* send the same request: a GET of /labels/shared with no query, although the
\* handler keeps the false in the params it hands to client.get. Nothing in
\* the request tells the two calls apart.
C25_FalseIsLostUpstream ==
    \A i \in Slots :
        LET bare == Fetch("GET", <<API_BASE_URL, "/labels/shared">>, <<>>,
                          props.accessToken, FALSE, <<>>)
        IN  /\ SharedLabelsCall(i, Obj(<<>>)) =>
                  /\ inv[i].req = bare
                  /\ ~BuiltHas(i, "omit_personal")
            /\ SharedLabelsCall(i, Obj(<< <<"omit_personal", Bool(FALSE)>> >>)) =>
                  /\ inv[i].req = bare
                  /\ BuiltHas(i, "omit_personal")

\* get_shared_labels({omit_personal: false}) has sent its request, with the
\* false in the handler's params and no query in the URL
C25_Witness ==
    \E i \in Slots :
        /\ SharedLabelsCall(i, Obj(<< <<"omit_personal", Bool(FALSE)>> >>))
        /\ Get(inv[i].built, "omit_personal") = Bool(FALSE)
        /\ inv[i].req.query = <<>>
        /\ ~Contains(inv[i].req.url, <<"omit_personal">>)

\* slot i holds a get, post or delete call that fetch answered
RestAnswered(i) ==
    /\ Done(i) /\ inv[i].calls = 1 /\ ~IsMove(i)
    /\ inv[i].resp.kind = "http"

\* a non-success answer is a failure carrying the status and the raw body
\* and is reported as an error; a 204 gives null
FailureFirst(i) ==
    LET resp == inv[i].resp
        o == handleResponse(resp)
    IN  /\ ~Ok(resp) =>
              /\ o.thrown /\ o.isErrorObject
              /\ Contains(o.message, <<ToString(resp.status)>>)
              /\ Contains(o.message, resp.body)
              /\ inv[i].result.isError = "true"
        /\ (Ok(resp) /\ resp.status = 204) => o = Returned(Null)

\* the answer's body is the JSON text of some value
IsJsonText(body) == \E v \in JsonUniverse : JsonTexts[v] = body

\* C26 as stated: a status outside the success range yields a failure with
\* status and raw body, a 204 yields null, and every other success yields
\* the value whose JSON text the body is.
C26_AsStated ==
    \A i \in Slots :
        RestAnswered(i) =>
            /\ FailureFirst(i)
            /\ (Ok(inv[i].resp) /\ inv[i].resp.status # 204) =>
                  LET o == handleResponse(inv[i].resp)
                  IN  ~o.thrown /\ JSONtext(o.value, -1) = inv[i].resp.body

\* C26: a status outside the success range yields a failure with status and
\* raw body, never a payload or null; a 204 yields null; any other success
\* yields the value whose JSON text the body is when the body is JSON text,
\* and the parser's failure, which the handler reports as an error, when it
\* is not.
C26_ResponseHandling ==
    \A i \in Slots :
        RestAnswered(i) =>
            /\ FailureFirst(i)
            /\ (Ok(inv[i].resp) /\ inv[i].resp.status # 204) =>
                  LET o == handleResponse(inv[i].resp)
                  IN  IF IsJsonText(inv[i].resp.body)
                      THEN ~o.thrown /\ JSONtext(o.value, -1) = inv[i].resp.body
                      ELSE /\ o.thrown /\ o.isErrorObject
                           /\ inv[i].result.isError = "true"

\* a get was answered 200 with a body that is no JSON text, and its handler
\* reported an error
C26_Witness ==
    \E i \in Slots :
        /\ RestAnswered(i) /\ inv[i].tool = "get_task"
        /\ inv[i].resp = Http(200, NotJson)
        /\ inv[i].result.isError = "true"

---------------------------------------------------------------------------
(* Calls side by side, and a rejection that is no Error *)

\* the awaited promise rejecting with a value that is not an Error: a
\* promise may reject with any value, here a string
Raised == [kind |-> "raised", status |-> 0, body |-> <<"quota">>]

\* the tools called while other calls are in flight
SideTools == {"me", "get_tasks", "move_task"}

\* how the call in slot i may end: refused, rejected with a non-Error or
\* with a TypeError, or answered
MixedResponses(call) ==
    {Raised, NetworkFailure, Http(500, <<>>),
     IF call.uuid = "" THEN Http(200, JSONtext(TaskB, -1)) ELSE Accepted(call)}

\* every registered tool called on its own, and a few of them called while
\* earlier calls still await their answer
NextMixed ==
    \/ ServerInit
    \/ /\ NoneInFlight
       /\ \E i \in {j \in Slots : LowestFree(j)}, name \in Registered :
             \E args \in PlainArgs[name], uuid \in UuidsFor(name) :
                Invoke(i, name, args, uuid)
    \/ /\ \A j \in Slots : inv[j].pc # "idle" => inv[j].tool \in SideTools
       /\ \E i \in {j \in Slots : LowestFree(j)},
             name \in SideTools \cap Registered :
                \E args \in PlainArgs[name] \cup (IF name = "move_task"
                                                   THEN MoveCalls ELSE {}),
                   uuid \in UuidsFor(name) :
                   Invoke(i, name, args, uuid)
    \/ \E i \in Slots : \E resp \in MixedResponses(inv[i]) : Respond(i, resp)
    \/ \E i \in Slots : Deliver(i)

SpecMixed == Init /\ [][NextMixed]_vars

\* C27: a step of a tool invocation - its start, the settling of its fetch
\* with a result or a failure, the sending of its result - leaves the
\* registered tool table and the session's props as they were, whatever
\* other invocations are in flight.
C27_InvocationsLeaveSession ==
    [][(\E i \in Slots : inv'[i] # inv[i])
          => (tools' = tools /\ props' = props)]_vars

\* one call has failed and another one, started before it ended, has
\* returned a payload; the table and the props are those of the start
C27_Witness ==
    \E i, j \in Slots :
        /\ i # j /\ Done(i) /\ Done(j)
        /\ inv[i].calls = 1 /\ inv[i].result.isError = "true"
        /\ inv[j].calls = 1 /\ inv[j].result.isError = "absent"
        /\ tools = Registrations(Catalogue)
        /\ props.accessToken \in AccessTokens

\* C28: when what the awaited call raised is not an Error, the handler
\* returns isError = true and its text is "Error <action>: " followed by
\* "Unknown error occurred", whichever tool it is.
C28_UnknownErrorText ==
    \A i \in Slots :
        (inv[i].pc \in {"done", "thrown"} /\ inv[i].resp = Raised) =>
            /\ Done(i)
            /\ inv[i].result.isError = "true"
            /\ inv[i].result.text
                  = <<"Error " \o Descriptor(inv[i].tool).action \o ": ",
                      "Unknown error occurred">>

\* two different tools have each caught a value that is no Error and end
\* their texts with the same string
C28_Witness ==
    \E i, j \in Slots :
        /\ Done(i) /\ Done(j)
        /\ inv[i].tool = "get_tasks" /\ inv[j].tool = "move_task"
        /\ inv[i].resp = Raised /\ inv[j].resp = Raised
        /\ inv[i].result.text[1] # inv[j].result.text[1]
        /\ inv[i].result.text[2] = inv[j].result.text[2]

\* C29: once init has run, in minimal or in full mode, no name occurs twice
\* among the names it passed to server.tool.
C29_NoNameTwice ==
    initialized =>
        \A m, n \in 1 .. Len(tools) : m # n => tools[m] # tools[n]

\* init has registered all 39 tools of the full set
C29_Witness ==
    /\ initialized /\ ~MINIMAL_TOOL_SET
    /\ Len(tools) = 39
    /\ Cardinality(Registered) = 39

\* the two sessions were opened for the same account
SameAccount ==
    /\ earlier.known
    /\ earlier.props.email = props.email
    /\ earlier.props.full_name = props.full_name

\* C30: no result of a handler holds the session's access token; me's text
\* is made of email and full_name alone, and me returns the same text in two
\* sessions of the same account whatever their access tokens are.
C30_TokenStaysInside ==
    \A i \in Slots :
        Done(i) =>
            /\ \A n \in 1 .. Len(inv[i].result.text) :
                  inv[i].result.text[n] # props.accessToken
            /\ inv[i].tool = "me" =>
                  /\ inv[i].result.text
                        = <<"{", "\"", "email", "\"", ":", "\"", props.email,
                            "\"", ",", "\"", "full_name", "\"", ":", "\"",
                            props.full_name, "\"", "}">>
                  /\ (SameAccount /\ earlier.me # <<>>) =>
                        inv[i].result.text = earlier.me

\* me has answered in two sessions of one account that differ in their
\* access token
C30_Witness ==
    \E i \in Slots :
        /\ Done(i) /\ inv[i].tool = "me"
        /\ SameAccount /\ earlier.me # <<>>
        /\ earlier.props.accessToken # props.accessToken
        /\ inv[i].result.text = earlier.me

===========================================================================
